---- MODULE Spec2Model ----
(***************************************************************************)
(* A model of encolajs-hydrator: the CastingManager (type registry and     *)
(* built-in casters/serializers) and the ClassBuilder with its built-in    *)
(* mixins (timestamps, softDelete) acting on BaseModel instances.          *)
(*                                                                         *)
(* JavaScript values are records [k, n, e]: k is the kind, n a numeric     *)
(* payload, e the elements of an array.  Finite numbers are counted in     *)
(* units of 10^-FracDigits; Date instants are counted in clock ticks       *)
(* (milliseconds), with MsPerSec ticks to a second and SecPerDay seconds   *)
(* to a day.  Strings are kept by what they spell: the decimal rendering   *)
(* of a number, a calendar date, an ISO timestamp, the toString() of a     *)
(* Date, or text that spells none of these.                                *)
(***************************************************************************)
EXTENDS Integers, Sequences, FiniteSets, TLC

\* ------------------------------------------------------------------ bounds
\* Fractional decimal digits a modelled number carries.
FracDigits == 3
\* Clock ticks (ms) in a second and seconds in a day, scaled down.
MsPerSec == 2
SecPerDay == 2
\* The last instant the clock reaches.
MaxClock == 3

RECURSIVE Pow10(_)
Pow10(d) == IF d <= 0 THEN 1 ELSE 10 * Pow10(d - 1)
Scale == Pow10(FracDigits)
MsPerDay == MsPerSec * SecPerDay

\* ------------------------------------------------------------------ values
V(k, n) == [k |-> k, n |-> n, e |-> <<>>]
Null == V("null", 0)
Undefined == V("undefined", 0)
NaN == V("nan", 0)
Num(n) == V("num", n)
Bool(b) == V("bool", IF b THEN 1 ELSE 0)
StrNum(n) == V("strnum", n)
StrText == V("strtext", 0)
StrDate(day) == V("strdate", day)
StrIso(t) == V("striso", t)
StrDateToString(t) == V("strdts", t)
DateAt(t) == V("date", t)
InvalidDate == V("baddate", 0)
Symbol == V("symbol", 0)
PlainObj(n) == V("obj", n)
WithToJSON(n) == V("json", n)
Arr(elems) == [k |-> "arr", n |-> 0, e |-> elems]
\* The outcome of a call that raised instead of returning.
Throw == V("throw", 0)

IsArray(v) == v.k = "arr"
IsDate(v) == v.k \in {"date", "baddate"}
IsString(v) == v.k \in {"strnum", "strtext", "strdate", "striso", "strdts"}
StrEmpty == V("strempty", 0)
\* String(array): the elements joined by commas.
StrJoin(elems) == [k |-> "strjoin", n |-> 0, e |-> elems]

\* -------------------------------------------------- the engine's conversions
VARIABLES
  casters,      \* CastingManager.casters: lower-cased type name -> cast function
  serializers,  \* CastingManager.serializers: lower-cased type name -> serialize function
  legacyDate,   \* what Date parsing gives for a string in no standard date format
  call,         \* the latest CastingManager call: operation, arguments, outcome
  latest,       \* history: the (cast, serialize) pair of the latest register call per name
  currentClass, \* ClassBuilder.currentClass
  mixins,       \* ClassBuilder.mixins: name -> mixin function
  proto,        \* per class: what has been installed on Class.prototype
  inst,         \* per class: one instance and its _data
  now,          \* the system clock, read by new Date()
  ev,           \* the latest ClassBuilder or instance call and its outcome
  lastWith,     \* history: the class given to the latest withClass call
  coll,         \* a BaseCollection: its _castingFn and its elements in order
  cev           \* the latest BaseCollection call: operation, arguments, outcome

\* A symbol anywhere in an array makes its string conversion raise TypeError.
RECURSIVE HasSymbol(_)
HasSymbol(v) ==
  \/ v.k = "symbol"
  \/ v.k = "arr" /\ \E i \in 1..Len(v.e) : HasSymbol(v.e[i])

\* Number(value)
RECURSIVE ToNumber(_)
ToNumber(v) ==
  CASE v.k = "num" -> v
    [] v.k = "null" -> Num(0)
    [] v.k = "bool" -> Num(v.n * Scale)
    [] v.k = "strnum" -> Num(v.n)
    [] v.k = "strempty" -> Num(0)
    [] v.k = "date" -> Num(v.n * Scale)
    [] v.k = "symbol" -> Throw
    [] v.k \in {"arr", "strjoin"} ->
         IF HasSymbol(v) THEN Throw
         ELSE IF Len(v.e) = 0 THEN Num(0)
         ELSE IF Len(v.e) > 1 THEN NaN
         ELSE IF v.e[1].k \in {"null", "undefined"} THEN Num(0)
         ELSE IF v.e[1].k \in {"bool", "date"} THEN NaN
         ELSE ToNumber(v.e[1])
    [] OTHER -> NaN

\* The year a calendar day falls in (days counted from 1970-01-01).
YearOf(day) == 1970 + (day \div 365)

\* parseFloat(value): the longest numeric prefix of String(value)
RECURSIVE ParseFloat(_)
ParseFloat(v) ==
  CASE v.k = "num" -> v
    [] v.k = "strnum" -> Num(v.n)
    [] v.k = "strdate" -> Num(YearOf(v.n) * Scale)
    [] v.k = "striso" -> Num(YearOf(v.n \div MsPerDay) * Scale)
    [] v.k = "symbol" -> Throw
    [] v.k \in {"arr", "strjoin"} ->
         IF HasSymbol(v) THEN Throw
         ELSE IF Len(v.e) = 0 THEN NaN
         ELSE IF v.e[1].k \in {"null", "undefined"} THEN NaN
         ELSE ParseFloat(v.e[1])
    [] OTHER -> NaN

\* parseInt(s, 10) of a specifier parameter; -1000 stands for NaN.
NaNInt == 0 - 1000
ParseInt(s) ==
  CASE s = "0" -> 0
    [] s = "1" -> 1
    [] s = "2" -> 2
    [] s = "3" -> 3
    [] s = "-1" -> 0 - 1
    [] s = "200" -> 200
    [] OTHER -> NaNInt

\* Number(num.toFixed(precision)) for a finite num counted in 10^-FracDigits:
\* RangeError outside 0..100, NaN digits count as 0, ties round away from zero.
ToFixed(n, precision) ==
  LET p == IF precision = NaNInt THEN 0 ELSE precision
      unit == Pow10(FracDigits - p)
      mag == IF n < 0 THEN 0 - n ELSE n
      rounded == ((mag + (unit \div 2)) \div unit) * unit
  IN IF p < 0 \/ p > 100 THEN Throw
     ELSE IF p >= FracDigits THEN Num(n)
     ELSE Num(IF n < 0 THEN 0 - rounded ELSE rounded)

\* String(value)
ToStringV(v) ==
  CASE v.k = "num" -> StrNum(v.n)
    [] IsString(v) \/ v.k \in {"strempty", "strjoin"} -> v
    [] v.k = "date" -> StrDateToString(v.n - (v.n % MsPerSec))
    [] v.k = "arr" ->
         IF HasSymbol(v) THEN Throw
         ELSE IF Len(v.e) = 0 THEN StrEmpty
         ELSE StrJoin(v.e)
    [] OTHER -> StrText

\* new Date(value) for a value that is not a Date
NewDate(v) ==
  CASE v.k = "num" -> DateAt(IF v.n < 0 THEN 0 - ((0 - v.n) \div Scale) ELSE v.n \div Scale)
    [] v.k = "null" -> DateAt(0)
    [] v.k = "bool" -> DateAt(v.n)
    [] v.k = "strdate" -> DateAt(v.n * MsPerDay)
    [] v.k = "striso" -> DateAt(v.n)
    [] v.k = "strdts" -> DateAt(v.n)
    [] v.k = "strnum" -> legacyDate
    [] v.k = "symbol" -> Throw
    [] v.k \in {"arr", "strjoin"} ->
         IF HasSymbol(v) THEN Throw
         ELSE IF Len(v.e) = 0 THEN InvalidDate
         ELSE legacyDate
    [] OTHER -> InvalidDate

\* Date.prototype.toISOString: RangeError on an invalid Date
ToISOString(d) == IF d.k = "date" THEN StrIso(d.n) ELSE Throw

\* !!value
Truthy(v) ==
  ~ \/ v.k \in {"null", "undefined", "nan", "strempty"}
    \/ v.k \in {"num", "bool"} /\ v.n = 0

\* ------------------------------------------------------------ CastingManager
\* A type specifier after typeSpec.split(':'): the type name, then the params.
\* <<>> stands for a specifier that is undefined (no string to split).
UndefinedSpec == <<>>
None == "none"

\* String.prototype.toLowerCase over the type names in use
toLowerCase(name) ==
  CASE name \in {"Number", "NUMBER"} -> "number"
    [] name \in {"Array", "ARRAY"} -> "array"
    [] name \in {"Date", "DATE"} -> "date"
    [] name \in {"DateTime", "DATETIME"} -> "datetime"
    [] name \in {"Decimal"} -> "decimal"
    [] name \in {"Money", "MONEY"} -> "money"
    [] OTHER -> name

TypeNames == {"bool", "boolean", "number", "integer", "decimal", "string",
              "array", "date", "datetime", "money", "nonexistent", ""}

\* isNullable as value === null alone.
isNullableNullOnly(value) == value.k = "null"

isNullable(value) == value.k \in {"null", "undefined"}

asNumber(value) ==
  IF isNullable(value) THEN Null
  ELSE IF value.k \in {"num", "nan"} THEN value
  ELSE LET num == ToNumber(value)
       IN IF num = Throw THEN Throw ELSE IF num = NaN THEN Num(0) ELSE num

asDecimal(value, params) ==
  IF isNullable(value) THEN Null
  ELSE LET precision == ParseInt(IF params = <<>> \/ params[1] = "" THEN "2" ELSE params[1])
           num == ParseFloat(value)
       IN IF num = Throw THEN Throw
          ELSE IF num = NaN THEN Num(0)
          ELSE ToFixed(num.n, precision)

asInteger(value) == asDecimal(value, <<"0">>)

asBoolean(value) == Bool(Truthy(value))

asString(value) == IF isNullable(value) THEN Null ELSE ToStringV(value)

\* asDate giving back what it was given when no date can be read from it.
asDatePassThrough(value) ==
  IF isNullable(value) THEN Null
  ELSE IF IsDate(value) THEN value
  ELSE IF NewDate(value) = InvalidDate THEN value
  ELSE NewDate(value)

asDate(value) ==
  IF isNullable(value) THEN Null
  ELSE IF IsDate(value) THEN value
  ELSE NewDate(value)

asDateTime(value) ==
  IF isNullable(value) THEN Null
  ELSE IF IsDate(value) THEN value
  ELSE NewDate(value)

serializeDate(value) ==
  IF isNullable(value) THEN Null
  ELSE LET d == IF IsDate(value) THEN value ELSE NewDate(value)
           iso == IF d = Throw THEN Throw ELSE ToISOString(d)
       IN IF iso = Throw THEN Throw ELSE StrDate(iso.n \div MsPerDay)

\* serializeDateTime cut to the calendar date, as serializeDate does.
serializeDateTimeDateOnly(value) ==
  IF isNullable(value) THEN Null
  ELSE LET d == IF IsDate(value) THEN value ELSE NewDate(value)
           iso == IF d = Throw THEN Throw ELSE ToISOString(d)
       IN IF iso = Throw THEN Throw ELSE StrDate(iso.n \div MsPerDay)

serializeDateTime(value) ==
  IF isNullable(value) THEN Null
  ELSE LET d == IF IsDate(value) THEN value ELSE NewDate(value)
       IN IF d = Throw THEN Throw ELSE ToISOString(d)

\* Functions a caller registers: one that returns a typed object and one that
\* throws ("throwingCast", "throwingSerialize": see CallCast, CallSerialize).
customCast(value) == PlainObj(1)
customSerialize(value) == PlainObj(2)

\* Map.prototype.get: undefined (None) for a key never set
MapGet(map, key) == IF key \in DOMAIN map THEN map[key] ELSE None

\* value.toJSON() of an object that has one
toJSON(value) == PlainObj(value.n)

\* array.map(f): raises when f raises on an element
MapResult(elems) ==
  IF \E i \in 1..Len(elems) : elems[i] = Throw THEN Throw ELSE Arr(elems)

RECURSIVE cast(_, _)
RECURSIVE serialize(_, _)

\* asArray without the element type: the elements are left as given.
asArrayNoElementCast(value, params) ==
  Arr(IF IsArray(value) THEN value.e ELSE <<value>>)

asArray(value, params) ==
  LET arr == IF IsArray(value) THEN value.e ELSE <<value>>
  IN IF params # <<>> /\ params[1] # ""
     THEN MapResult([i \in 1..Len(arr) |-> cast(arr[i], <<params[1]>>)])
     ELSE Arr(arr)

serializeArray(value, params) ==
  IF ~IsArray(value) THEN Arr(<<>>)
  ELSE IF params # <<>> /\ params[1] # ""
  THEN MapResult([i \in 1..Len(value.e) |-> serialize(value.e[i], <<params[1]>>)])
  ELSE value

\* castFn.call(this, value, params)
CallCast(castFn, value, params) ==
  CASE castFn = "asBoolean" -> asBoolean(value)
    [] castFn = "asNumber" -> asNumber(value)
    [] castFn = "asInteger" -> asInteger(value)
    [] castFn = "asDecimal" -> asDecimal(value, params)
    [] castFn = "asString" -> asString(value)
    [] castFn = "asArray" -> asArray(value, params)
    [] castFn = "asDate" -> asDate(value)
    [] castFn = "asDateTime" -> asDateTime(value)
    [] castFn = "customCast" -> customCast(value)
    [] castFn = "throwingCast" -> Throw

\* serializeFn.call(this, value, params)
CallSerialize(serializeFn, value, params) ==
  CASE serializeFn = "serializeArray" -> serializeArray(value, params)
    [] serializeFn = "serializeDate" -> serializeDate(value)
    [] serializeFn = "serializeDateTime" -> serializeDateTime(value)
    [] serializeFn = "customSerialize" -> customSerialize(value)
    [] serializeFn = "throwingSerialize" -> Throw

\* cast without its try/catch: what the caster raises reaches the caller.
castNoCatch(value, typeSpec) ==
  IF typeSpec = UndefinedSpec THEN Throw
  ELSE LET castFn == MapGet(casters, toLowerCase(Head(typeSpec)))
       IN IF castFn = None THEN value ELSE CallCast(castFn, value, Tail(typeSpec))

cast(value, typeSpec) ==
  IF typeSpec = UndefinedSpec THEN Throw
  ELSE LET type == Head(typeSpec)
           params == Tail(typeSpec)
           castFn == MapGet(casters, toLowerCase(type))
       IN IF castFn = None THEN value
          ELSE LET r == CallCast(castFn, value, params)
               IN IF r = Throw THEN value ELSE r

\* serialize without its first test: an object's own toJSON is never asked.
serializeRegistryOnly(value, typeSpec) ==
  IF typeSpec = UndefinedSpec THEN Throw
  ELSE LET type == Head(typeSpec)
           params == Tail(typeSpec)
           serializeFn == MapGet(serializers, toLowerCase(type))
       IN IF type = "array" /\ IsArray(value)
          THEN MapResult([i \in 1..Len(value.e) |->
                 serialize(value.e[i], IF params = <<>> THEN UndefinedSpec ELSE <<params[1]>>)])
          ELSE IF serializeFn = None THEN value
          ELSE LET r == CallSerialize(serializeFn, value, params)
               IN IF r = Throw THEN value ELSE r

serialize(value, typeSpec) ==
  IF value.k = "json" THEN toJSON(value)
  ELSE IF typeSpec = UndefinedSpec THEN Throw
  ELSE LET type == Head(typeSpec)
           params == Tail(typeSpec)
           serializeFn == MapGet(serializers, toLowerCase(type))
       IN IF type = "array" /\ IsArray(value)
          THEN MapResult([i \in 1..Len(value.e) |->
                 serialize(value.e[i], IF params = <<>> THEN UndefinedSpec ELSE <<params[1]>>)])
          ELSE IF serializeFn = None THEN value
          ELSE LET r == CallSerialize(serializeFn, value, params)
               IN IF r = Throw THEN value ELSE r

\* register(type, castFn, serializeFn?): the two maps after the call
registerCaster(cs, type, castFn) ==
  [cs EXCEPT ![toLowerCase(type)] = castFn]

registerSerializer(ss, type, serializeFn) ==
  IF serializeFn # None THEN [ss EXCEPT ![toLowerCase(type)] = serializeFn] ELSE ss

\* The registrations of the constructor, in its order.
BuiltIns ==
  << <<"bool", "asBoolean", None>>, <<"boolean", "asBoolean", None>>,
     <<"number", "asNumber", None>>, <<"integer", "asInteger", None>>,
     <<"decimal", "asDecimal", None>>, <<"string", "asString", None>>,
     <<"array", "asArray", "serializeArray">>, <<"date", "asDate", "serializeDate">>,
     <<"datetime", "asDateTime", "serializeDateTime">> >>

RECURSIVE ConstructedCasters(_)
ConstructedCasters(i) ==
  IF i = 0 THEN [t \in TypeNames |-> None]
  ELSE registerCaster(ConstructedCasters(i - 1), BuiltIns[i][1], BuiltIns[i][2])

RECURSIVE ConstructedSerializers(_)
ConstructedSerializers(i) ==
  IF i = 0 THEN [t \in TypeNames |-> None]
  ELSE registerSerializer(ConstructedSerializers(i - 1), BuiltIns[i][1], BuiltIns[i][3])

\* ------------------------------------------------- the inputs that are tried
Values ==
  { Null, Undefined, NaN, Num(0), Num(1234), Num(Scale), Num(Scale + (Scale \div 2)),
    Bool(TRUE), StrNum(1234), StrText, StrEmpty, StrDate(1), StrIso(MsPerDay + 1),
    DateAt(0), DateAt(1), DateAt(MsPerDay), DateAt(MsPerDay + 1), InvalidDate,
    Symbol, PlainObj(0), WithToJSON(5),
    Arr(<<>>), Arr(<<Num(1234)>>), Arr(<<StrNum(Scale), StrNum(1234)>>),
    Arr(<<DateAt(1)>>), Arr(<<Arr(<<DateAt(1)>>)>>), Arr(<<WithToJSON(5)>>),
    Arr(<<Null>>), Arr(<<Symbol>>) }

Specs ==
  { <<"number">>, <<"Number">>, <<"integer">>, <<"decimal">>, <<"decimal", "3">>,
    <<"decimal", "0">>, <<"decimal", "200">>, <<"string">>, <<"boolean">>, <<"bool">>,
    <<"array">>, <<"ARRAY">>, <<"array", "date">>, <<"Array", "date">>,
    <<"array", "number">>, <<"array", "array">>, <<"array", "money">>,
    <<"date">>, <<"Date">>, <<"datetime">>, <<"DateTime">>,
    <<"money">>, <<"Money">>, <<"nonexistent">> }

RegisterNames == {"Money", "DATE"}
RegisterCasts == {"customCast", "throwingCast"}
RegisterSerializers == {None, "customSerialize", "throwingSerialize"}

Idle == [op |-> "none", value |-> Null, spec |-> <<>>, out |-> Null]

\* ------------------------------------------------------------ the registry
mgrVars == <<casters, serializers, legacyDate, call, latest>>
bldVars == <<currentClass, mixins, proto, inst, now, ev, lastWith>>
colVars == <<coll, cev>>
vars == <<casters, serializers, legacyDate, call, latest,
          currentClass, mixins, proto, inst, now, ev, lastWith, coll, cev>>

MgrInit ==
  /\ casters = ConstructedCasters(Len(BuiltIns))
  /\ serializers = ConstructedSerializers(Len(BuiltIns))
  /\ legacyDate \in {InvalidDate, DateAt(0)}
  /\ call = Idle
  /\ latest = [t \in TypeNames |->
                 IF \E i \in 1..Len(BuiltIns) : BuiltIns[i][1] = t
                 THEN LET i == CHOOSE j \in 1..Len(BuiltIns) : BuiltIns[j][1] = t
                      IN <<BuiltIns[i][2], BuiltIns[i][3]>>
                 ELSE <<None, None>>]

\* A call is made when the previous one has returned.
Register(type, castFn, serializeFn) ==
  /\ call = Idle
  /\ casters' = registerCaster(casters, type, castFn)
  /\ serializers' = registerSerializer(serializers, type, serializeFn)
  /\ latest' = [latest EXCEPT ![toLowerCase(type)] = <<castFn, serializeFn>>]
  /\ UNCHANGED <<legacyDate, call>>
  /\ UNCHANGED bldVars
  /\ UNCHANGED colVars

Cast(value, typeSpec) ==
  /\ call = Idle
  /\ call' = [op |-> "cast", value |-> value, spec |-> typeSpec, out |-> cast(value, typeSpec)]
  /\ UNCHANGED <<casters, serializers, legacyDate, latest>>
  /\ UNCHANGED bldVars
  /\ UNCHANGED colVars

Serialize(value, typeSpec) ==
  /\ call = Idle
  /\ call' = [op |-> "serialize", value |-> value, spec |-> typeSpec,
              out |-> serialize(value, typeSpec)]
  /\ UNCHANGED <<casters, serializers, legacyDate, latest>>
  /\ UNCHANGED bldVars
  /\ UNCHANGED colVars

\* The caller takes the result.
Return ==
  /\ call # Idle
  /\ call' = Idle
  /\ UNCHANGED <<casters, serializers, legacyDate, latest>>
  /\ UNCHANGED bldVars
  /\ UNCHANGED colVars

MgrNext ==
  \/ Return
  \/ \E t \in RegisterNames, c \in RegisterCasts, s \in RegisterSerializers : Register(t, c, s)
  \/ \E v \in Values, t \in Specs : Cast(v, t)
  \/ \E v \in Values, t \in Specs : Serialize(v, t)

\* ------------------------------------------------- CastingManager properties
CallType == IF call.spec = <<>> THEN "" ELSE toLowerCase(Head(call.spec))
CallParams == IF call.spec = <<>> THEN <<>> ELSE Tail(call.spec)
CallCaster == MapGet(casters, CallType)
CallSerializer == MapGet(serializers, CallType)
\* The call's value does not take serialize's toJSON path.
NoToJSON == call.value.k # "json"
\* The type still has the pair the constructor registered.
HasBuiltInPair(t) ==
  /\ casters[t] = ConstructedCasters(Len(BuiltIns))[t]
  /\ serializers[t] = ConstructedSerializers(Len(BuiltIns))[t]

\* C1: cast returns without raising for every value and specifier, and when
\* the type name is not registered or the registered cast function raises,
\* the result is the input value itself.
C1_CastNeverRaises ==
  call.op = "cast" =>
    /\ call.out # Throw
    /\ (CallCaster = None \/ CallCast(CallCaster, call.value, CallParams) = Throw)
         => call.out = call.value

C1_Witness_CasterRaised ==
  /\ call.op = "cast"
  /\ CallCaster # None
  /\ CallCast(CallCaster, call.value, CallParams) = Throw
  /\ call.out = call.value

\* C2 (as claimed): serialize returns without raising for every value and
\* specifier, the list type included, and when no serializer is registered or
\* the registered serializer raises, the result is the input value.
C2_SerializeNeverRaises ==
  call.op = "serialize" =>
    /\ call.out # Throw
    /\ ( /\ NoToJSON
         /\ ~(Head(call.spec) = "array" /\ IsArray(call.value))
         /\ (CallSerializer = None
               \/ CallSerialize(CallSerializer, call.value, CallParams) = Throw) )
         => call.out = call.value

\* C3 (as claimed): cast and serialize for a name use only the functions of
\* the latest register call for it; when that call gave no serialize function,
\* serialize returns the value unchanged.
C3_LatestRegistrationWins ==
  LET castFn == latest[CallType][1]
      serializeFn == latest[CallType][2]
  IN /\ (call.op = "cast" /\ castFn # None) =>
          call.out = LET r == CallCast(castFn, call.value, CallParams)
                     IN IF r = Throw THEN call.value ELSE r
     /\ (call.op = "serialize" /\ castFn # None /\ NoToJSON
            /\ ~(Head(call.spec) = "array" /\ IsArray(call.value))) =>
          call.out = IF serializeFn = None THEN call.value
                     ELSE LET r == CallSerialize(serializeFn, call.value, CallParams)
                          IN IF r = Throw THEN call.value ELSE r

\* Two specifiers that differ at most in the letter case of the type name.
SameButCase(a, b) ==
  /\ a # <<>> /\ b # <<>>
  /\ Tail(a) = Tail(b)
  /\ toLowerCase(Head(a)) = toLowerCase(Head(b))

\* C4 (as claimed): cast and serialize give the same outcome, result or
\* failure, under every letter case of the specifier's type name.
C4_CaseInsensitive ==
  /\ call.op = "cast" =>
        \A t \in Specs : SameButCase(call.spec, t) => cast(call.value, t) = call.out
  /\ call.op = "serialize" =>
        \A t \in Specs : SameButCase(call.spec, t) => serialize(call.value, t) = call.out

\* C5 (as claimed): cast(v, "number") is null for null and undefined, and for
\* every other v a number that is not NaN: v's numeric reading, else 0.
\* (Values whose conversion raises are left to C1.)
C5_NumberCast ==
  (call.op = "cast" /\ CallType = "number" /\ HasBuiltInPair("number")
     /\ ~HasSymbol(call.value)) =>
    IF isNullable(call.value) THEN call.out = Null
    ELSE /\ call.out.k = "num"
         /\ call.out = (IF ToNumber(call.value).k = "num"
                         THEN ToNumber(call.value) ELSE Num(0))

\* The round trip of C9 applies: a serialize call of a built-in type T, given
\* without parameters, on a value of T's kind.
RoundTripCase(T, kind) ==
  /\ call.op = "serialize"
  /\ call.spec = <<T>>
  /\ HasBuiltInPair(T)
  /\ call.value.k = kind

\* C9 (as claimed): cast(serialize(x, T), T) = x for every finite number x
\* (number, decimal) and every valid Date x (date, datetime).
C9_RoundTripAsClaimed ==
  (\/ RoundTripCase("number", "num") \/ RoundTripCase("decimal", "num")
   \/ RoundTripCase("date", "date") \/ RoundTripCase("datetime", "date"))
    => cast(call.out, call.spec) = call.value

\* C9 (amended): the round trip holds for number and datetime, for decimal
\* when x has at most two fractional digits, and for date when x is a
\* midnight (UTC) instant.
C9_RoundTrip ==
  (\/ RoundTripCase("number", "num")
   \/ RoundTripCase("decimal", "num") /\ ToFixed(call.value.n, 2) = call.value
   \/ RoundTripCase("date", "date") /\ call.value.n % MsPerDay = 0
   \/ RoundTripCase("datetime", "date"))
    => cast(call.out, call.spec) = call.value

C9_Witness_DateRoundTrip ==
  /\ RoundTripCase("date", "date")
  /\ call.value = DateAt(MsPerDay)
  /\ call.out = StrDate(1)
  /\ cast(call.out, call.spec) = call.value

\* --------------------------------------------------------------- ClassBuilder
\* Classes a caller hands to the builder or the builder creates: Post is a
\* caller's class extending BaseModel; CustomModel and CustomCollection are the
\* classes newModelClass and newCollectionClass create (the latest of each).
Classes == {"Post", "CustomBase", "CustomModel", "CustomCollection"}
ModelClasses == {"Post", "CustomModel"}
NoClass == "null"
Props == {"title", "active", "price", "created_at", "updated_at", "deleted_at",
          "_price", "_secret", "touch"}
\* The instances: one per class, and a second instance of Post.
Instances == Classes \cup {"Post2"}
ClassOf(i) == IF i = "Post2" THEN "Post" ELSE i
Absent == V("absent", 0)

\* A prototype nothing has been installed on.
FreshProto ==
  [ types |-> [p \in Props |-> None],      \* _propertyTypes
    casts |-> [p \in Props |-> None],      \* _cast_<prop>, by the type it captured
    accessors |-> [p \in Props |-> None],  \* defined accessor: "fixed" or "configurable"
    getters |-> [p \in Props |-> None],    \* _get_<prop>, by the closure it holds
    serializers |-> [p \in Props |-> None], \* _serialize_<prop>: the type it captured, or "custom"
    withGet |-> {},                        \* history: the fields declared with a get
    withSet |-> {},                        \* history: the fields declared with a set
    touch |-> None,                        \* touch(), by the field it stamps
    delete |-> None,                       \* delete(), by the field it stamps
    restore |-> None,
    isDeleted |-> None,
    wraps |-> <<>>,                        \* setAttributes wrappers, innermost first
    methods |-> {},                        \* methods added by name
    toJSON |-> FALSE,
    applied |-> <<>> ]                     \* history: the built-in traits applied, in order

\* The options of an add call; given = FALSE is a call without options.
NoOptions ==
  [given |-> FALSE, props |-> <<>>, createdAtField |-> "", updatedAtField |-> "",
   deletedAtField |-> "", methods |-> {}]
PropsOptions(entries) == [NoOptions EXCEPT !.given = TRUE, !.props = entries]
FieldOptions(field) == [NoOptions EXCEPT !.given = TRUE, !.deletedAtField = field]
MethodOptions(names) == [NoOptions EXCEPT !.given = TRUE, !.methods = names]
\* A props entry: the property name and its schema.
Prop(name, type) ==
  <<name, [type |-> type, get |-> None, set |-> None, configurable |-> FALSE]>>
\* A props entry whose descriptor supplies get and/or set closures.
PropWith(name, type, get, set) ==
  <<name, [type |-> type, get |-> get, set |-> set, configurable |-> FALSE]>>

\* applyPropsToClass: the prototype after the entries from the i-th on, and
\* whether Object.defineProperty raised on redefining a fixed accessor (the
\* entry's _propertyTypes and _cast_ are already set by then).
RECURSIVE ApplyEntries(_, _, _)
ApplyEntries(p, entries, i) ==
  IF i > Len(entries) THEN [proto |-> [p EXCEPT !.toJSON = TRUE], err |-> None]
  ELSE LET prop == entries[i][1]
           spec == entries[i][2]
           q == [p EXCEPT !.types[prop] = spec.type,
                          !.getters[prop] = IF spec.set # None THEN spec.set
                                            ELSE IF spec.get # None THEN spec.get ELSE @,
                          !.withGet = IF spec.get # None THEN @ \cup {prop} ELSE @,
                          !.withSet = IF spec.set # None THEN @ \cup {prop} ELSE @,
                          !.casts[prop] = IF spec.type # "any" THEN spec.type ELSE @,
                          !.serializers[prop] = IF spec.type # "any" THEN spec.type ELSE @]
       IN IF p.accessors[prop] = "fixed"
          THEN [proto |-> q, err |-> "TypeError"]
          ELSE ApplyEntries(
                 [q EXCEPT !.accessors[prop] =
                    IF spec.configurable THEN "configurable" ELSE "fixed"],
                 entries, i + 1)

applyPropsToClass(p, props) == ApplyEntries(p, props, 1)

\* mixins/timestamps on a class; isModel: the class has setAttributes to wrap.
timestamps(p, isModel, options) ==
  LET createdAtField == IF options.given /\ options.createdAtField # ""
                        THEN options.createdAtField ELSE "created_at"
      updatedAtField == IF options.given /\ options.updatedAtField # ""
                        THEN options.updatedAtField ELSE "updated_at"
      r == applyPropsToClass(p, <<Prop(createdAtField, "date"), Prop(updatedAtField, "date")>>)
  IN IF r.err # None THEN r
     ELSE [proto |-> [r.proto EXCEPT
                        !.applied = Append(@, "timestamps"),
                        !.touch = updatedAtField,
                        !.wraps = IF isModel
                                  THEN Append(@, <<createdAtField, updatedAtField>>)
                                  ELSE @],
           err |-> None]

\* mixins/softDelete
softDelete(p, options) ==
  LET deletedAtField == IF options.given /\ options.deletedAtField # ""
                        THEN options.deletedAtField ELSE "deleted_at"
      r == applyPropsToClass(p, <<Prop(deletedAtField, "date")>>)
  IN IF r.err # None THEN r
     ELSE [proto |-> [r.proto EXCEPT !.applied = Append(@, "softDelete"),
                                     !.delete = deletedAtField,
                                     !.restore = deletedAtField,
                                     !.isDeleted = deletedAtField],
           err |-> None]

\* mixins/methods: Object.entries(undefined) raises when no methods are given.
methods(p, options) ==
  IF ~options.given THEN [proto |-> p, err |-> "TypeError"]
  ELSE [proto |-> [p EXCEPT !.methods = @ \cup options.methods], err |-> None]

\* A mixin a caller registers: it adds one method.
sluggable(p, options) ==
  [proto |-> [p EXCEPT !.methods = @ \cup {"generateSlug"}], err |-> None]

\* mixin.call(this, Class, options)
CallMixin(mixin, p, isModel, options) ==
  CASE mixin = "timestamps" -> timestamps(p, isModel, options)
    [] mixin = "softDelete" -> softDelete(p, options)
    [] mixin = "methods" -> methods(p, options)
    [] mixin = "sluggable" -> sluggable(p, options)

MixinNames == {"methods", "timestamps", "softDelete", "sluggable", "nonexistent", "props"}

\* registerBuiltInMixins
BuiltInMixins ==
  [m \in MixinNames |-> IF m \in {"methods", "timestamps", "softDelete"} THEN m ELSE None]

\* add that starts installing (an empty props map) before it looks the mixin up.
addInstallFirst(b, mixinName, options) ==
  IF b.cur = NoClass THEN [b EXCEPT !.err = "NoClassError"]
  ELSE LET r == applyPropsToClass(b.protos[b.cur], options.props)
           b1 == [b EXCEPT !.protos[b.cur] = r.proto]
           mixin == MapGet(mixins, mixinName)
       IN IF mixinName = "props" /\ options.given THEN [b1 EXCEPT !.err = r.err]
          ELSE IF mixin = None THEN [b1 EXCEPT !.err = "MixinNotFound"]
          ELSE LET m == CallMixin(mixin, b.protos[b.cur], b.cur \in ModelClasses, options)
               IN [b EXCEPT !.protos[b.cur] = m.proto, !.err = m.err]

\* ClassBuilder.add on builder state b = [cur, protos]: the state after, and
\* the error raised if any.
add(b, mixinName, options) ==
  IF b.cur = NoClass THEN [b EXCEPT !.err = "NoClassError"]
  ELSE IF mixinName = "props" /\ options.given
  THEN LET r == applyPropsToClass(b.protos[b.cur], options.props)
       IN [b EXCEPT !.protos[b.cur] = r.proto, !.err = r.err]
  ELSE LET mixin == MapGet(mixins, mixinName)
       IN IF mixin = None THEN [b EXCEPT !.err = "MixinNotFound"]
          ELSE LET r == CallMixin(mixin, b.protos[b.cur], b.cur \in ModelClasses, options)
               IN [b EXCEPT !.protos[b.cur] = r.proto, !.err = r.err]

\* A chain of add calls, stopped by the first that raises.
RECURSIVE addAll(_, _, _)
addAll(b, calls, i) ==
  IF i > Len(calls) \/ b.err # None THEN b
  ELSE addAll(add(b, calls[i][1], calls[i][2]), calls, i + 1)

\* build that returns the class and keeps it as the current class.
buildKeepsClass(b) ==
  IF b.cur = NoClass THEN [b EXCEPT !.err = "NoClassError"]
  ELSE [b EXCEPT !.ret = b.cur]

\* ClassBuilder.build on builder state b
build(b) ==
  IF b.cur = NoClass THEN [b EXCEPT !.err = "NoClassError"]
  ELSE [b EXCEPT !.ret = b.cur, !.cur = NoClass]

\* A plain object with no keys (the result of toJSON before any key is added).
NoJSON == [k \in Props |-> Absent]
Builder == [cur |-> currentClass, protos |-> proto, err |-> None, ret |-> NoClass]
NoInstance == [exists |-> FALSE, data |-> [p \in Props |-> Absent]]
Event(op, cls, b) ==
  [op |-> op, cls |-> cls, name |-> "", given |-> FALSE, attrs |-> <<>>,
   key |-> "", value |-> Absent, json |-> NoJSON, err |-> b.err, ret |-> b.ret]

\* ------------------------------------------------------- BaseModel instances
\* CastingManager.hasCaster(type), which applyPropsToClass calls
hasCaster(type) == MapGet(casters, toLowerCase(type)) # None

\* castAttribute with the cast function looked up when the manager was
\* constructed instead of at the call.
castAttributeBound(p, key, value) ==
  LET castFn == IF p.casts[key] # None
                THEN MapGet(ConstructedCasters(Len(BuiltIns)), toLowerCase(p.casts[key]))
                ELSE None
      r == IF castFn # None THEN CallCast(castFn, value, <<>>) ELSE value
  IN IF r = Throw THEN value ELSE r

\* BaseModel.castAttribute through the _cast_<key> the builder installed
castAttribute(p, key, value) ==
  IF p.casts[key] # None
  THEN IF hasCaster(p.casts[key]) THEN cast(value, <<p.casts[key]>>) ELSE value
  ELSE value

\* BaseModel.setAttribute (no _set_<key> method is ever installed)
setAttribute(p, data, key, value) ==
  [data EXCEPT ![key] = castAttribute(p, key, value)]

\* The closures a descriptor supplies for price, keeping their own backing
\* state in _data._price: get returns it, set(value) stores the value as given.
priceGet(data) == IF data["_price"] = Absent THEN Undefined ELSE data["_price"]
priceSet(data, value) == [data EXCEPT !["_price"] = value]

\* this[`_get_${key}`](): the closure held there, called with no argument
CallGetter(fn, data) ==
  IF fn = "priceGet" THEN [data |-> data, value |-> priceGet(data)]
  ELSE [data |-> priceSet(data, Undefined), value |-> Undefined]

\* getAttribute that answers null for a missing entry without storing it.
getAttributeNoStore(p, data, key) ==
  IF p.getters[key] # None THEN CallGetter(p.getters[key], data)
  ELSE [data |-> data,
        value |-> IF data[key].k \in {"absent", "undefined"} THEN Null ELSE data[key]]

\* BaseModel.getAttribute: the data after the read (an undefined entry is set
\* to null first) and the value read
getAttribute(p, data, key) ==
  LET d == IF data[key].k \in {"absent", "undefined"}
           THEN setAttribute(p, data, key, Null) ELSE data
  IN IF p.getters[key] # None THEN CallGetter(p.getters[key], d)
     ELSE [data |-> d, value |-> d[key]]

\* instance[prop]: through the accessor when the prototype defines one
ReadProp(p, data, prop) ==
  IF p.accessors[prop] # None THEN getAttribute(p, data, prop)
  ELSE [data |-> data, value |-> Undefined]

\* instance[prop] = value
WriteProp(p, data, prop, value) ==
  IF p.accessors[prop] # None THEN setAttribute(p, data, prop, value) ELSE data

\* touch() of the timestamps mixin; t is what new Date() reads
touch(p, data, t) == WriteProp(p, data, p.touch, DateAt(t))

\* delete() and restore() of the softDelete mixin, probing for touch in the
\* call; t1 and t2 are the two clock readings
deleteNoTouch(p, data, t1, t2) == WriteProp(p, data, p.delete, DateAt(t1))

restoreNoTouch(p, data, t2) == WriteProp(p, data, p.restore, Null)

delete(p, data, t1, t2) ==
  LET d == WriteProp(p, data, p.delete, DateAt(t1))
  IN IF p.touch # None THEN touch(p, d, t2) ELSE d

restore(p, data, t2) ==
  LET d == WriteProp(p, data, p.restore, Null)
  IN IF p.touch # None THEN touch(p, d, t2) ELSE d

isDeleted(p, data) ==
  LET r == ReadProp(p, data, p.isDeleted)
  IN [data |-> r.data, value |-> Truthy(r.value)]

\* BaseModel.setAttributes on the entries of attributes
RECURSIVE baseSetAttributes(_, _, _, _)
baseSetAttributes(p, data, attributes, i) ==
  IF i > Len(attributes) THEN data
  ELSE baseSetAttributes(p, setAttribute(p, data, attributes[i][1], attributes[i][2]),
                         attributes, i + 1)

\* A wrapper that stamps the created field on every ingestion.
wrappedAlwaysStamps(p, data, i, t1, t2) ==
  IF p.wraps = <<>> THEN data
  ELSE WriteProp(p, WriteProp(p, data, p.wraps[1][1], DateAt(t1)), p.wraps[1][2], DateAt(t2))

\* The setAttributes wrappers of the timestamps mixin, from the i-th on
RECURSIVE wrappedSetAttributes(_, _, _, _, _)
wrappedSetAttributes(p, data, i, t1, t2) ==
  IF i > Len(p.wraps) THEN data
  ELSE LET created == ReadProp(p, data, p.wraps[i][1])
           d == IF ~Truthy(created.value)
                THEN WriteProp(p, created.data, p.wraps[i][1], DateAt(t1))
                ELSE created.data
       IN wrappedSetAttributes(p, WriteProp(p, d, p.wraps[i][2], DateAt(t2)), i + 1, t1, t2)

setAttributes(p, data, attributes, t1, t2) ==
  wrappedSetAttributes(p, baseSetAttributes(p, data, attributes, 1), 1, t1, t2)

\* prop.startsWith('_')
startsWithUnderscore(prop) == prop \in {"_secret"}

\* typeof this[prop] === 'function': without an accessor for prop the lookup
\* finds a method of that name on the prototype, if one was installed.
IsFunctionProp(p, prop) ==
  /\ p.accessors[prop] = None
  /\ \/ prop = "touch" /\ p.touch # None
     \/ prop \in p.methods

\* Object.keys(this._data)
DataKeys(data) == {k \in Props : data[k] # Absent}

\* CastingManager.hasSerializer(type), which applyPropsToClass calls
hasSerializer(type) == MapGet(serializers, toLowerCase(type)) # None

\* What a _serialize_<key> method written by the class's author returns.
SerializedByMethod == PlainObj(3)

\* BaseModel.serializeAttribute: through _serialize_<key> when the instance
\* has one, the author's or the one the builder installed; else the stored value
serializeAttribute(p, data, key) ==
  IF p.serializers[key] = None THEN data[key]
  ELSE IF p.serializers[key] = "custom" THEN SerializedByMethod
  ELSE IF hasSerializer(p.serializers[key])
       THEN serialize(data[key], <<p.serializers[key]>>)
       ELSE data[key]

\* BaseModel.toJSON: the keys of _data that are not methods or underscored,
\* each with serializeAttribute
BaseModelToJSON(p, data) ==
  [k \in Props |->
     IF k \in DataKeys(data) /\ ~IsFunctionProp(p, k) /\ ~startsWithUnderscore(k)
     THEN serializeAttribute(p, data, k) ELSE Absent]

\* The toJSON that applyPropsToClass installs: the keys of _data and the own
\* property names of the instance (_idAttribute and _data, both underscored),
\* each read as this[prop] and serialized by its recorded type, if any.
ClassToJSON(p, data) ==
  [k \in Props |->
     IF k \in DataKeys(data) /\ ~IsFunctionProp(p, k) /\ ~startsWithUnderscore(k)
     THEN LET value == ReadProp(p, data, k).value
          IN IF p.types[k] # None THEN serialize(value, <<p.types[k]>>) ELSE value
     ELSE Absent]

\* Object.entries(json): the keys a toJSON result holds, with their values.
PropOrder ==
  <<"title", "active", "price", "created_at", "updated_at", "deleted_at",
    "_price", "_secret", "touch">>
Entries(json) ==
  LET all == [i \in 1..Len(PropOrder) |-> <<PropOrder[i], json[PropOrder[i]]>>]
  IN SelectSeq(all, LAMBDA entry : entry[2] # Absent)

\* BaseModel.clone: toJSON(), then the class's constructor on the result; t1
\* and t2 are the clock readings of the constructor's setAttributes.
clone(p, data, t1, t2) ==
  LET serializedData == IF p.toJSON THEN ClassToJSON(p, data) ELSE BaseModelToJSON(p, data)
  IN setAttributes(p, NoInstance.data, Entries(serializedData), t1, t2)

\* ------------------------------------------------- ClassBuilder: the actions
InstanceClasses == {"Post"}
NoEvent ==
  [op |-> "none", cls |-> NoClass, name |-> "", given |-> FALSE, attrs |-> <<>>,
   key |-> "", value |-> Absent, json |-> NoJSON, err |-> None, ret |-> NoClass]

BldInit ==
  /\ currentClass = NoClass
  /\ mixins = BuiltInMixins
  /\ proto = [c \in Classes |-> FreshProto]
  /\ inst = [i \in Instances |-> NoInstance]
  /\ now = 0
  /\ ev = NoEvent
  /\ lastWith = NoClass

WithClass(Class) ==
  /\ currentClass' = Class
  /\ lastWith' = Class
  /\ ev' = [NoEvent EXCEPT !.op = "withClass", !.cls = Class]
  /\ UNCHANGED <<mixins, proto, inst, now>>
  /\ UNCHANGED mgrVars
  /\ UNCHANGED colVars

RegisterMixin(name, fn) ==
  /\ mixins' = [mixins EXCEPT ![name] = fn]
  /\ ev' = [NoEvent EXCEPT !.op = "registerMixin"]
  /\ UNCHANGED <<currentClass, proto, inst, now, lastWith>>
  /\ UNCHANGED mgrVars
  /\ UNCHANGED colVars

Add(mixinName, options) ==
  LET b == add(Builder, mixinName, options)
  IN /\ proto' = b.protos
     /\ ev' = [Event("add", currentClass, b) EXCEPT !.name = mixinName, !.given = options.given]
     /\ UNCHANGED <<currentClass, mixins, inst, now, lastWith>>
     /\ UNCHANGED mgrVars
     /\ UNCHANGED colVars

Build ==
  LET b == build(Builder)
  IN /\ currentClass' = b.cur
     /\ ev' = Event("build", currentClass, b)
     /\ UNCHANGED <<mixins, proto, inst, now, lastWith>>
     /\ UNCHANGED mgrVars
     /\ UNCHANGED colVars

\* newModelClass / newCollectionClass: a new class, withClass, the add calls,
\* build; an add that raises ends the call there.
NewClass(op, Class, calls) ==
  LET b0 == [Builder EXCEPT !.cur = Class, !.protos[Class] = FreshProto]
      b1 == addAll(b0, calls, 1)
      b2 == IF b1.err = None THEN build(b1) ELSE b1
  IN /\ currentClass' = b2.cur
     /\ lastWith' = Class
     /\ proto' = b2.protos
     /\ inst' = [i \in Instances |-> IF ClassOf(i) = Class THEN NoInstance ELSE inst[i]]
     /\ ev' = Event(op, Class, b2)
     /\ UNCHANGED <<mixins, now>>
     /\ UNCHANGED mgrVars
     /\ UNCHANGED colVars

NewModelClass(props, mixinCalls) ==
  NewClass("newModelClass", "CustomModel",
           <<<<"props", PropsOptions(props)>>, <<"methods", MethodOptions({})>>>> \o mixinCalls)

NewCollectionClass(mixinCalls) ==
  NewClass("newCollectionClass", "CustomCollection",
           <<<<"methods", MethodOptions({})>>>> \o mixinCalls)

\* new Class(attributes) for instance i of the class: BaseModel's constructor
\* calls setAttributes, and the clock may advance between the two readings;
\* the constructor of a class that is not a BaseModel leaves _data alone.
New(i, attributes, tick) ==
  /\ now + tick <= MaxClock
  /\ inst' = [inst EXCEPT ![i] =
       [exists |-> TRUE,
        data |-> IF ClassOf(i) \in ModelClasses
                 THEN setAttributes(proto[ClassOf(i)], NoInstance.data, attributes,
                                    now, now + tick)
                 ELSE NoInstance.data]]
  /\ now' = now + tick
  /\ ev' = [NoEvent EXCEPT !.op = "new", !.cls = i, !.attrs = attributes]
  /\ UNCHANGED <<currentClass, mixins, proto, lastWith>>
  /\ UNCHANGED mgrVars
  /\ UNCHANGED colVars

\* instance.setAttributes(attributes) on a BaseModel instance that exists
SetAttributes(i, attributes, tick) ==
  /\ inst[i].exists /\ ClassOf(i) \in ModelClasses
  /\ now + tick <= MaxClock
  /\ inst' = [inst EXCEPT ![i].data =
       setAttributes(proto[ClassOf(i)], @, attributes, now, now + tick)]
  /\ now' = IF proto[ClassOf(i)].wraps # <<>> THEN now + tick ELSE now
  /\ ev' = [NoEvent EXCEPT !.op = "setAttributes", !.cls = i, !.attrs = attributes]
  /\ UNCHANGED <<currentClass, mixins, proto, lastWith>>
  /\ UNCHANGED mgrVars
  /\ UNCHANGED colVars

\* instance[prop] = value for a declared field: the setter calls
\* this.setAttribute, which only a BaseModel has.
Assign(i, prop, value) ==
  /\ inst[i].exists /\ proto[ClassOf(i)].accessors[prop] # None
  /\ IF ClassOf(i) \in ModelClasses
     THEN /\ inst' = [inst EXCEPT ![i].data = setAttribute(proto[ClassOf(i)], @, prop, value)]
          /\ ev' = [NoEvent EXCEPT !.op = "assign", !.cls = i, !.key = prop, !.value = value]
     ELSE /\ inst' = inst
          /\ ev' = [NoEvent EXCEPT !.op = "assign", !.cls = i, !.key = prop, !.value = value,
                                   !.err = "TypeError"]
  /\ UNCHANGED <<currentClass, mixins, proto, now, lastWith>>
  /\ UNCHANGED mgrVars
  /\ UNCHANGED colVars

\* instance[prop] for a declared field: the getter calls this.getAttribute.
Read(i, prop) ==
  /\ inst[i].exists /\ proto[ClassOf(i)].accessors[prop] # None
  /\ IF ClassOf(i) \in ModelClasses
     THEN LET r == getAttribute(proto[ClassOf(i)], inst[i].data, prop)
          IN /\ inst' = [inst EXCEPT ![i].data = r.data]
             /\ ev' = [NoEvent EXCEPT !.op = "read", !.cls = i, !.key = prop, !.value = r.value]
     ELSE /\ inst' = inst
          /\ ev' = [NoEvent EXCEPT !.op = "read", !.cls = i, !.key = prop, !.err = "TypeError"]
  /\ UNCHANGED <<currentClass, mixins, proto, now, lastWith>>
  /\ UNCHANGED mgrVars
  /\ UNCHANGED colVars

\* instance.getAttribute(key) on a BaseModel instance, for any key
GetAttribute(i, key) ==
  /\ inst[i].exists /\ ClassOf(i) \in ModelClasses
  /\ LET r == getAttribute(proto[ClassOf(i)], inst[i].data, key)
     IN /\ inst' = [inst EXCEPT ![i].data = r.data]
        /\ ev' = [NoEvent EXCEPT !.op = "getAttribute", !.cls = i, !.key = key,
                                 !.value = r.value]
  /\ UNCHANGED <<currentClass, mixins, proto, now, lastWith>>
  /\ UNCHANGED mgrVars
  /\ UNCHANGED colVars

Touch(Class) ==
  /\ inst[Class].exists /\ proto[Class].touch # None
  /\ inst' = [inst EXCEPT ![Class].data = touch(proto[Class], @, now)]
  /\ ev' = [NoEvent EXCEPT !.op = "touch", !.cls = Class]
  /\ UNCHANGED <<currentClass, mixins, proto, now, lastWith>>
  /\ UNCHANGED mgrVars
  /\ UNCHANGED colVars

Delete(Class, tick) ==
  /\ inst[Class].exists /\ proto[Class].delete # None
  /\ now + tick <= MaxClock
  /\ inst' = [inst EXCEPT ![Class].data = delete(proto[Class], @, now, now + tick)]
  /\ now' = IF proto[Class].touch # None THEN now + tick ELSE now
  /\ ev' = [NoEvent EXCEPT !.op = "delete", !.cls = Class]
  /\ UNCHANGED <<currentClass, mixins, proto, lastWith>>
  /\ UNCHANGED mgrVars
  /\ UNCHANGED colVars

\* restore(): touch() reads the clock at or after the start of the call.
Restore(Class, tick) ==
  /\ inst[Class].exists /\ proto[Class].restore # None
  /\ now + tick <= MaxClock
  /\ inst' = [inst EXCEPT ![Class].data = restore(proto[Class], @, now + tick)]
  /\ now' = IF proto[Class].touch # None THEN now + tick ELSE now
  /\ ev' = [NoEvent EXCEPT !.op = "restore", !.cls = Class]
  /\ UNCHANGED <<currentClass, mixins, proto, lastWith>>
  /\ UNCHANGED mgrVars
  /\ UNCHANGED colVars

\* instance.toJSON() on a BaseModel instance: the installed one, or BaseModel's
ToJSON(i) ==
  /\ inst[i].exists /\ ClassOf(i) \in ModelClasses
  /\ ev' = [NoEvent EXCEPT !.op = "toJSON", !.cls = i,
                           !.json = IF proto[ClassOf(i)].toJSON
                                    THEN ClassToJSON(proto[ClassOf(i)], inst[i].data)
                                    ELSE BaseModelToJSON(proto[ClassOf(i)], inst[i].data)]
  /\ UNCHANGED <<currentClass, mixins, proto, inst, now, lastWith>>
  /\ UNCHANGED mgrVars
  /\ UNCHANGED colVars

\* copy = instance.clone(): the clone becomes instance j.
Clone(i, j, tick) ==
  /\ inst[i].exists /\ ClassOf(i) \in ModelClasses /\ ClassOf(j) = ClassOf(i) /\ i # j
  /\ now + tick <= MaxClock
  /\ inst' = [inst EXCEPT ![j] =
       [exists |-> TRUE, data |-> clone(proto[ClassOf(i)], inst[i].data, now, now + tick)]]
  /\ now' = IF proto[ClassOf(i)].wraps # <<>> THEN now + tick ELSE now
  /\ ev' = [NoEvent EXCEPT !.op = "clone", !.cls = i, !.key = j]
  /\ UNCHANGED <<currentClass, mixins, proto, lastWith>>
  /\ UNCHANGED mgrVars
  /\ UNCHANGED colVars

\* Class.prototype._serialize_<prop> = function () { ... }: the class's author
\* gives the class a serializer method of its own for the field.
Override(Class, prop) ==
  /\ proto' = [proto EXCEPT ![Class].serializers[prop] = "custom"]
  /\ ev' = [NoEvent EXCEPT !.op = "override", !.cls = Class, !.key = prop]
  /\ UNCHANGED <<currentClass, mixins, inst, now, lastWith>>
  /\ UNCHANGED mgrVars
  /\ UNCHANGED colVars

\* castingManager.register(type, castFn, serializeFn) by the owner of the
\* manager the builder was given, between calls on classes and instances.
RegisterType(type, castFn, serializeFn) ==
  /\ casters' = registerCaster(casters, type, castFn)
  /\ serializers' = registerSerializer(serializers, type, serializeFn)
  /\ latest' = [latest EXCEPT ![toLowerCase(type)] = <<castFn, serializeFn>>]
  /\ ev' = [NoEvent EXCEPT !.op = "register", !.name = type]
  /\ UNCHANGED <<legacyDate, call>>
  /\ UNCHANGED <<currentClass, mixins, proto, inst, now, lastWith>>
  /\ UNCHANGED colVars

IsDeleted(Class) ==
  /\ inst[Class].exists /\ proto[Class].isDeleted # None
  /\ inst' = [inst EXCEPT ![Class].data = isDeleted(proto[Class], @).data]
  /\ ev' = [NoEvent EXCEPT !.op = "isDeleted", !.cls = Class]
  /\ UNCHANGED <<currentClass, mixins, proto, now, lastWith>>
  /\ UNCHANGED mgrVars
  /\ UNCHANGED colVars

Tick ==
  /\ now < MaxClock
  /\ now' = now + 1
  /\ ev' = [NoEvent EXCEPT !.op = "tick"]
  /\ UNCHANGED <<currentClass, mixins, proto, inst, lastWith>>
  /\ UNCHANGED mgrVars
  /\ UNCHANGED colVars

AddCalls ==
  { <<"props", NoOptions>>, <<"timestamps", NoOptions>>,
    <<"sluggable", NoOptions>>, <<"nonexistent", NoOptions>> }

MixinCalls ==
  { <<>>, <<<<"timestamps", NoOptions>>>>, <<<<"nonexistent", NoOptions>>>> }

CollectionMixinCalls == { <<>>, <<<<"timestamps", NoOptions>>>> }

Attributes ==
  { <<>>, <<<<"title", StrText>>>>, <<<<"created_at", DateAt(0)>>>>,
    <<<<"created_at", Null>>, <<"updated_at", DateAt(0)>>>> }

\* The calls on the builder itself.
BldNext ==
  \/ \E c \in {"Post"} : WithClass(c)
  \/ RegisterMixin("sluggable", "sluggable")
  \/ \E a \in AddCalls : Add(a[1], a[2])
  \/ Build
  \/ \E m \in MixinCalls : NewModelClass(<<Prop("title", "string")>>, m)
  \/ \E m \in CollectionMixinCalls : NewCollectionClass(m)

TraitCalls ==
  { <<"props", PropsOptions(<<Prop("title", "string")>>)>>,
    <<"timestamps", NoOptions>>, <<"softDelete", NoOptions>> }

\* The calls on a class being enhanced and on its instance.
TraitNext ==
  \/ \E a \in TraitCalls : Add(a[1], a[2])
  \/ \E c \in InstanceClasses, a \in Attributes, tick \in 0..1 : New(c, a, tick)
  \/ \E c \in InstanceClasses, a \in Attributes, tick \in 0..1 : SetAttributes(c, a, tick)
  \/ \E c \in InstanceClasses : Touch(c)
  \/ \E c \in InstanceClasses, tick \in 0..1 : Delete(c, tick)
  \/ \E c \in InstanceClasses, tick \in 0..1 : Restore(c, tick)
  \/ \E c \in InstanceClasses : IsDeleted(c)
  \/ Tick

\* -------------------------------------------------------------- BaseCollection
\* The longest collection that is tried.
MaxItems == 3

\* An item is [k, id, name].  k is what typeof and instanceof tell of it:
\* "object" a plain object, "model" an instance of the collection's model
\* class, "number" a primitive number, "null" and "undefined" those values.
\* id is what item.id reads: "undefined" when the item has no id, "null", or
\* the digits of a number.  name is the rest of an object, or the digits of a
\* primitive number.
Obj(id, name) == [k |-> "object", id |-> id, name |-> name]
NumItem(digits) == [k |-> "number", id |-> "undefined", name |-> digits]
NullItem == [k |-> "null", id |-> "undefined", name |-> ""]
UndefinedItem == [k |-> "undefined", id |-> "undefined", name |-> ""]
TypeError == "TypeError"

\* The coercion function of the tests: an instance of the model class is
\* passed through, anything else is given to the model's constructor, which
\* keeps the attributes of an object and nothing of any other value.
TestModel(item) ==
  IF item.k = "model" THEN item
  ELSE IF item.k = "object" THEN [item EXCEPT !.k = "model"]
  ELSE [k |-> "model", id |-> "undefined", name |-> ""]

\* _castItem: the coercion function when there is one, else the item itself.
castItem(fn, item) == IF fn = None THEN item ELSE TestModel(item)

\* typeof item === 'object', which null satisfies as well.
TypeofObject(item) == item.k \in {"object", "model", "null"}

\* _getId: the id of an object, null for an object without one and for a
\* primitive; reading a property of null raises TypeError.
getId(item) ==
  IF TypeofObject(item)
  THEN IF item.k = "null" THEN TypeError
       ELSE IF item.id # "undefined" THEN item.id ELSE "null"
  ELSE "null"

\* The first element at which a scan for id stops: one whose id is id, or
\* one whose id cannot be read; 0 when the scan reaches the end.
ScanFor(items, id) ==
  IF \E i \in 1..Len(items) : getId(items[i]) \in {id, TypeError}
  THEN CHOOSE i \in 1..Len(items) :
         /\ getId(items[i]) \in {id, TypeError}
         /\ \A j \in 1..(i - 1) : getId(items[j]) \notin {id, TypeError}
  ELSE 0

\* _itemExists as if an item without an id were looked up like any other.
itemExistsNoNullGuard(items, item) ==
  LET itemId == getId(item)
      at == ScanFor(items, itemId)
  IN IF itemId = TypeError THEN TypeError
     ELSE IF at = 0 THEN "false"
     ELSE IF getId(items[at]) = TypeError THEN TypeError
     ELSE "true"

\* _itemExists: "true", "false", or TypeError when an id cannot be read.
itemExists(items, item) ==
  LET itemId == getId(item)
      at == ScanFor(items, itemId)
  IN IF itemId = TypeError THEN TypeError
     ELSE IF itemId = "null" THEN "false"
     ELSE IF at = 0 THEN "false"
     ELSE IF getId(items[at]) = TypeError THEN TypeError
     ELSE "true"

\* The outcome of a call: the elements afterwards and the error raised.
Outcome(items, err) == [items |-> items, err |-> err]

\* addItem(item)
addItem(c, item) ==
  LET castedItem == castItem(c.fn, item)
      exists == itemExists(c.items, castedItem)
  IN IF exists = TypeError THEN Outcome(c.items, TypeError)
     ELSE IF exists = "false" THEN Outcome(Append(c.items, castedItem), None)
     ELSE Outcome(c.items, None)

\* push(...items): add for each item in turn; an error ends the call and
\* leaves what was added before it.
RECURSIVE push(_, _)
push(c, items) ==
  IF items = <<>> THEN Outcome(c.items, None)
  ELSE LET first == addItem(c, Head(items))
       IN IF first.err # None THEN first
          ELSE push([c EXCEPT !.items = first.items], Tail(items))

\* unshift(...items): the items are coerced, those found in the collection
\* as it is are dropped, the rest is put in front in the order given.
unshift(c, items) ==
  LET castedItems == [i \in 1..Len(items) |-> castItem(c.fn, items[i])]
      exists == [i \in 1..Len(items) |-> itemExists(c.items, castedItems[i])]
      newItems == SelectSeq([i \in 1..Len(items) |-> <<castedItems[i], exists[i]>>],
                            LAMBDA pair : pair[2] = "false")
  IN IF \E i \in 1..Len(items) : exists[i] = TypeError
     THEN Outcome(c.items, TypeError)
     ELSE Outcome([i \in 1..Len(newItems) |-> newItems[i][1]] \o c.items, None)

\* The elements without the one at index at.
Without(items, at) == SubSeq(items, 1, at - 1) \o SubSeq(items, at + 1, Len(items))

\* The id remove(itemOrId) looks for: the id of a non-null object, else
\* the value itself.
idToRemove(itemOrId) ==
  IF TypeofObject(itemOrId) /\ itemOrId.k # "null" THEN getId(itemOrId)
  ELSE IF itemOrId.k = "number" THEN itemOrId.name
  ELSE itemOrId.k

\* remove(itemOrId): the first element whose id is the one looked for is
\* taken out.
remove(c, itemOrId) ==
  LET at == ScanFor(c.items, idToRemove(itemOrId))
  IN IF at = 0 THEN Outcome(c.items, None)
     ELSE IF getId(c.items[at]) = TypeError THEN Outcome(c.items, TypeError)
     ELSE Outcome(Without(c.items, at), None)

\* The clamp Array.prototype.splice applies to start and deleteCount.
Clamp(n, lo, hi) == IF n < lo THEN lo ELSE IF n > hi THEN hi ELSE n

\* splice(start, deleteCount, ...items): BaseCollection defines none, so the
\* call is Array.prototype.splice, which stores the items as they are given.
splice(c, start, deleteCount, items) ==
  LET from == Clamp(start, 0, Len(c.items))
      count == Clamp(deleteCount, 0, Len(c.items) - from)
  IN Outcome(SubSeq(c.items, 1, from) \o items
               \o SubSeq(c.items, from + count + 1, Len(c.items)), None)

\* Math.ceil(a / b) for a >= 0 and b > 0.
Ceil(a, b) == (a + b - 1) \div b

\* this.slice(from, to) with 0 <= from <= to: the elements at from..to-1.
slice(items, from, to) ==
  SubSeq(items, from + 1, IF to > Len(items) THEN Len(items) ELSE to)

\* toRows(itemsPerRow): the rows, or the Error raised.
toRows(c, itemsPerRow) ==
  IF itemsPerRow <= 0 THEN [rows |-> <<>>, err |-> "Error"]
  ELSE IF itemsPerRow = 1 THEN [rows |-> <<c.items>>, err |-> None]
  ELSE LET totalRows == Ceil(Len(c.items), itemsPerRow)
       IN [rows |-> [i \in 1..totalRows |->
                       slice(c.items, (i - 1) * itemsPerRow, i * itemsPerRow)],
           err |-> None]

\* new BaseCollection(items, castingFn): each item is coerced and pushed,
\* and push coerces it again.
construct(fn, items) ==
  push([fn |-> fn, items |-> <<>>],
       [i \in 1..Len(items) |-> castItem(fn, items[i])])

\* ------------------------------------------------ BaseCollection: the actions
NoCall ==
  [op |-> "none", items |-> <<>>, at |-> 0, count |-> 0, err |-> None, rows |-> <<>>]
Called(op, items, err) == [NoCall EXCEPT !.op = op, !.items = items, !.err = err]

ColInit ==
  /\ coll = [fn |-> None, items |-> <<>>]
  /\ cev = NoCall

\* new BaseCollection(items, castingFn); a constructor that raises gives no
\* collection, and the one at hand stays.
Construct(fn, items) ==
  LET made == construct(fn, items)
  IN /\ coll' = IF made.err = None THEN [fn |-> fn, items |-> made.items] ELSE coll
     /\ cev' = [Called("new", items, made.err) EXCEPT !.at = IF fn = None THEN 0 ELSE 1]
     /\ UNCHANGED mgrVars
     /\ UNCHANGED bldVars

ColAdd(item) ==
  LET done == addItem(coll, item)
  IN /\ Len(coll.items) < MaxItems
     /\ coll' = [coll EXCEPT !.items = done.items]
     /\ cev' = Called("add", <<item>>, done.err)
     /\ UNCHANGED mgrVars
     /\ UNCHANGED bldVars

ColPush(items) ==
  LET done == push(coll, items)
  IN /\ Len(coll.items) + Len(items) <= MaxItems
     /\ coll' = [coll EXCEPT !.items = done.items]
     /\ cev' = Called("push", items, done.err)
     /\ UNCHANGED mgrVars
     /\ UNCHANGED bldVars

ColUnshift(items) ==
  LET done == unshift(coll, items)
  IN /\ Len(coll.items) + Len(items) <= MaxItems
     /\ coll' = [coll EXCEPT !.items = done.items]
     /\ cev' = Called("unshift", items, done.err)
     /\ UNCHANGED mgrVars
     /\ UNCHANGED bldVars

\* remove(itemOrId) with a value made for the call.
ColRemove(itemOrId) ==
  LET done == remove(coll, itemOrId)
  IN /\ coll' = [coll EXCEPT !.items = done.items]
     /\ cev' = Called("remove", <<itemOrId>>, done.err)
     /\ UNCHANGED mgrVars
     /\ UNCHANGED bldVars

\* remove(collection[at - 1]): the argument is an element of the collection.
ColRemoveElement(at) ==
  LET done == remove(coll, coll.items[at])
  IN /\ at \in 1..Len(coll.items)
     /\ coll' = [coll EXCEPT !.items = done.items]
     /\ cev' = [Called("removeElement", <<coll.items[at]>>, done.err) EXCEPT !.at = at]
     /\ UNCHANGED mgrVars
     /\ UNCHANGED bldVars

ColSplice(start, deleteCount, items) ==
  LET done == splice(coll, start, deleteCount, items)
  IN /\ Len(done.items) <= MaxItems
     /\ coll' = [coll EXCEPT !.items = done.items]
     /\ cev' = [Called("splice", items, done.err) EXCEPT !.at = start, !.count = deleteCount]
     /\ UNCHANGED mgrVars
     /\ UNCHANGED bldVars

ColToRows(itemsPerRow) ==
  LET done == toRows(coll, itemsPerRow)
  IN /\ cev' = [Called("toRows", <<>>, done.err) EXCEPT !.at = itemsPerRow,
                                                        !.rows = done.rows]
     /\ UNCHANGED coll
     /\ UNCHANGED mgrVars
     /\ UNCHANGED bldVars

\* The items that are given: two objects with the same id, one with another
\* id, one whose id is null, one without an id, a number, null.
Items ==
  { Obj("1", "A"), Obj("1", "B"), Obj("2", "C"), Obj("null", "X"),
    Obj("undefined", "Y"), NumItem("1"), NullItem }
\* The argument lists that are given: each item alone, and pairs with equal
\* ids, with different ids, without ids, and the same item twice.
Batches ==
  { <<a>> : a \in Items } \cup
  { <<Obj("1", "A"), Obj("1", "B")>>, <<Obj("1", "A"), Obj("2", "C")>>,
    <<Obj("null", "X"), Obj("undefined", "Y")>>,
    <<Obj("null", "X"), Obj("null", "X")>>,
    <<Obj("2", "C"), Obj("null", "X")>>, <<NumItem("1"), NullItem>> }
CastingFns == {None, "TestModel"}
\* What remove is given: an object, an id, an id no element has, null, undefined.
Removals ==
  { Obj("1", "B"), Obj("null", "X"), NumItem("1"), NumItem("2"), NumItem("9"),
    NullItem, UndefinedItem }

CollectionNext ==
  \/ \E fn \in CastingFns, items \in Batches \cup {<<>>} : Construct(fn, items)
  \/ \E item \in Items : ColAdd(item)
  \/ \E items \in Batches : ColPush(items)
  \/ \E items \in Batches : ColUnshift(items)
  \/ \E x \in Removals : ColRemove(x)
  \/ \E at \in 1..MaxItems : ColRemoveElement(at)
  \/ \E itemsPerRow \in (0 - 1)..(MaxItems + 1) : ColToRows(itemsPerRow)

\* What splice is given to put in: nothing, an object with an id, one without.
Replacements == { <<>>, <<Obj("1", "A")>>, <<Obj("null", "X")>> }

SpliceNext ==
  \/ CollectionNext
  \/ \E start \in 0..1, deleteCount \in 0..1, items \in Replacements :
       ColSplice(start, deleteCount, items)

\* ------------------------------------------------------ the specifications
\* Spec: a CastingManager taking register, cast and serialize calls.
Init == MgrInit /\ BldInit /\ ColInit
Next == MgrNext
Spec == Init /\ [][Next]_vars

\* BuilderSpec: a ClassBuilder over a CastingManager with its built-in types,
\* taking withClass, registerMixin, add, build and new...Class calls.
BuilderInit == MgrInit /\ legacyDate = InvalidDate /\ BldInit /\ ColInit
BuilderSpec == BuilderInit /\ [][BldNext]_vars

\* TraitSpec: after withClass(Post), traits are added to Post in any order
\* while an instance of Post is constructed and used and the clock runs.
TraitInit ==
  /\ MgrInit /\ legacyDate = InvalidDate
  /\ currentClass = "Post" /\ lastWith = "Post"
  /\ mixins = BuiltInMixins
  /\ proto = [c \in Classes |-> FreshProto]
  /\ inst = [i \in Instances |-> NoInstance]
  /\ now = 0
  /\ ev = [NoEvent EXCEPT !.op = "withClass", !.cls = "Post"]
  /\ ColInit
TraitSpec == TraitInit /\ [][TraitNext]_vars

\* ModelSpec: after withClass(Post) (a BaseModel) or withClass(CustomBase)
\* (not one), fields and the timestamps trait are added to the class while
\* instances are constructed, assigned, read and serialized; a second
\* instance of Post is constructed and assigned too.  The clock stands.
ModelClassesBuilt == {"Post", "CustomBase"}
ModelCalls ==
  { <<"props", PropsOptions(<<Prop("title", "string"), Prop("active", "boolean")>>)>>,
    <<"props", PropsOptions(<<PropWith("price", "decimal", "priceGet", None)>>)>>,
    <<"props", PropsOptions(<<PropWith("price", "decimal", None, "priceSet")>>)>>,
    <<"props", PropsOptions(<<PropWith("price", "decimal", "priceGet", "priceSet")>>)>>,
    <<"timestamps", NoOptions>> }
ModelNews ==
  { <<"Post", <<>>>>,
    <<"Post", <<<<"title", StrNum(1234)>>, <<"_secret", StrText>>, <<"touch", StrText>>>>>>,
    <<"Post2", <<>>>>,
    <<"CustomBase", <<>>>> }
Assignments ==
  { <<"Post", "title", Num(1234)>>, <<"Post", "active", StrText>>,
    <<"Post", "price", Num(1234)>>, <<"Post2", "title", StrText>>,
    <<"CustomBase", "title", StrText>> }
Reads ==
  { <<"Post", "title">>, <<"Post", "active">>, <<"Post", "price">>,
    <<"Post2", "title">>, <<"CustomBase", "title">> }
GetKeys == {"touch"}

ModelNext ==
  \/ \E a \in ModelCalls : Add(a[1], a[2])
  \/ \E n \in ModelNews : New(n[1], n[2], 0)
  \/ \E a \in Assignments : Assign(a[1], a[2], a[3])
  \/ \E r \in Reads : Read(r[1], r[2])
  \/ \E k \in GetKeys : GetAttribute("Post", k)
  \/ ToJSON("Post")

ModelInit ==
  /\ MgrInit /\ legacyDate = InvalidDate
  /\ currentClass \in ModelClassesBuilt /\ lastWith = currentClass
  /\ mixins = BuiltInMixins
  /\ proto = [c \in Classes |-> FreshProto]
  /\ inst = [i \in Instances |-> NoInstance]
  /\ now = 0
  /\ ev = [NoEvent EXCEPT !.op = "withClass", !.cls = currentClass]
  /\ ColInit
ModelSpec == ModelInit /\ [][ModelNext]_vars

\* CloneSpec: after withClass(Post), fields and the timestamps trait are added
\* while an instance of Post is constructed and cloned, the original and the
\* clone are assigned, and the clock runs.
CloneCalls ==
  { <<"props", PropsOptions(<<Prop("title", "string")>>)>>, <<"timestamps", NoOptions>> }
CloneNext ==
  \/ \E a \in CloneCalls : Add(a[1], a[2])
  \/ \E a \in Attributes, tick \in 0..1 : New("Post", a, tick)
  \/ \E tick \in 0..1 : Clone("Post", "Post2", tick)
  \/ \E i \in {"Post", "Post2"} : Assign(i, "title", Num(1234))
  \/ Tick
CloneSpec == TraitInit /\ [][CloneNext]_vars

\* SerializerSpec: after withClass(Post), fields and the timestamps trait are
\* added and the class is given a _serialize_title method of its own, in any
\* order, while an instance is constructed and serialized.
SerializerNext ==
  \/ \E a \in CloneCalls : Add(a[1], a[2])
  \/ Override("Post", "title")
  \/ \E a \in Attributes, tick \in 0..1 : New("Post", a, tick)
  \/ ToJSON("Post")
  \/ Tick
SerializerSpec == TraitInit /\ [][SerializerNext]_vars

\* ResolveSpec: after withClass(Post), fields of a type not registered yet
\* (money) and of a built-in type (date) are declared, types are registered
\* and re-registered, and an instance is constructed and assigned, in any order.
ResolveCalls ==
  { <<"props", PropsOptions(<<Prop("price", "money"), Prop("created_at", "date")>>)>> }
ResolveAssignments ==
  { <<"price", StrNum(1234)>>, <<"price", StrText>>,
    <<"created_at", StrDate(1)>>, <<"created_at", DateAt(1)>> }
ResolveNext ==
  \/ \E a \in ResolveCalls : Add(a[1], a[2])
  \/ \E t \in RegisterNames, c \in RegisterCasts : RegisterType(t, c, None)
  \/ New("Post", <<>>, 0)
  \/ \E a \in ResolveAssignments : Assign("Post", a[1], a[2])
ResolveSpec == TraitInit /\ [][ResolveNext]_vars

\* CollectionSpec: a BaseCollection is constructed, with a coercion function
\* or without, and takes add, push, unshift and remove calls.
CollectionInit == MgrInit /\ legacyDate = InvalidDate /\ BldInit /\ ColInit
CollectionSpec == CollectionInit /\ [][CollectionNext]_vars

\* SpliceSpec: the same, with splice calls as well.
SpliceSpec == CollectionInit /\ [][SpliceNext]_vars

\* ------------------------------------------------------ ClassBuilder properties
\* C8: add with a name that is not registered raises to the caller and leaves
\* the class as it was: nothing installed on it changes, and the registered
\* mixins are the same.
C8_UnknownMixinLeavesShape ==
  [][ ( /\ ev'.op = "add"
        /\ currentClass # NoClass
        /\ ~(ev'.name = "props" /\ ev'.given)
        /\ MapGet(mixins, ev'.name) = None )
      => ( /\ ev'.err = "MixinNotFound"
           /\ proto' = proto
           /\ mixins' = mixins
           /\ currentClass' = currentClass ) ]_vars

C8_Witness_UnknownOnEnhancedClass ==
  /\ ev.op = "add"
  /\ ev.err = "MixinNotFound"
  /\ ev.name = "nonexistent"
  /\ ev.cls = "Post"
  /\ proto["Post"] # FreshProto

\* C10: the builder has a current class from withClass until the next build:
\* add and build raise when there is none, build returns the class of the
\* latest withClass and clears it, add and registerMixin leave it alone, and
\* newModelClass / newCollectionClass return with none set.
C10_CurrentClassProtocol ==
  [][ /\ (ev'.op \in {"add", "build"} /\ currentClass = NoClass)
          => (ev'.err = "NoClassError" /\ currentClass' = NoClass)
      /\ (ev'.op = "add" /\ currentClass # NoClass)
          => (ev'.err # "NoClassError" /\ currentClass' = currentClass)
      /\ (ev'.op = "build" /\ currentClass # NoClass)
          => (ev'.err = None /\ ev'.ret = lastWith /\ currentClass' = NoClass)
      /\ ev'.op = "withClass" => (currentClass' = ev'.cls /\ currentClass' # NoClass)
      /\ ev'.op = "registerMixin" => currentClass' = currentClass
      /\ (ev'.op \in {"newModelClass", "newCollectionClass"} /\ ev'.err = None)
          => (currentClass' = NoClass /\ ev'.ret = ev'.cls) ]_vars

C10_Witness_BuildReturned ==
  /\ ev.op = "build"
  /\ ev.err = None
  /\ ev.ret = "Post"
  /\ lastWith = "Post"
  /\ currentClass = NoClass

\* ------------------------------------------------------------ trait properties
PostData == inst["Post"].data
\* The dates from instant a to instant b.
DatesFrom(a, b) == {DateAt(t) : t \in a..b}

\* C6 (as claimed): with timestamps applied and then softDelete, delete()
\* stamps deleted_at with the current instant and updated_at with that same
\* instant and isDeleted() is true; restore() has deleted_at null, updated_at
\* at the instant of the call and isDeleted() false.
C6_SameInstant ==
  [][ proto["Post"].applied = <<"timestamps", "softDelete">> =>
        /\ ev'.op = "delete" =>
              /\ PostData'.deleted_at = DateAt(now)
              /\ PostData'.updated_at = PostData'.deleted_at
              /\ isDeleted(proto["Post"], PostData').value
        /\ ev'.op = "restore" =>
              /\ PostData'.deleted_at = Null
              /\ PostData'.updated_at \in DatesFrom(now, now')
              /\ ~isDeleted(proto["Post"], PostData').value ]_vars

\* C6 (amended): delete() stamps deleted_at with the instant it reads, then
\* touch() stamps updated_at with its own reading of the clock, which is that
\* instant or a later one within the call; restore() as claimed.
C6_DeleteThenTouch ==
  [][ proto["Post"].applied = <<"timestamps", "softDelete">> =>
        /\ ev'.op = "delete" =>
              /\ PostData'.deleted_at = DateAt(now)
              /\ PostData'.updated_at \in DatesFrom(now, now')
              /\ isDeleted(proto["Post"], PostData').value
        /\ ev'.op = "restore" =>
              /\ PostData'.deleted_at = Null
              /\ PostData'.updated_at \in DatesFrom(now, now')
              /\ ~isDeleted(proto["Post"], PostData').value ]_vars

C6_Witness_DeletedThenTouchedLater ==
  /\ proto["Post"].applied = <<"timestamps", "softDelete">>
  /\ ev.op = "delete"
  /\ PostData.deleted_at.k = "date"
  /\ PostData.updated_at = DateAt(now)
  /\ PostData.deleted_at.n < now

\* C7 (as claimed): with softDelete applied before timestamps, delete() and
\* restore() set or clear deleted_at and leave updated_at unchanged.
C7_OrderSkipsTouch ==
  [][ ( /\ proto["Post"].applied = <<"softDelete", "timestamps">>
        /\ ev'.op \in {"delete", "restore"} )
      => ( /\ PostData'.deleted_at = (IF ev'.op = "delete" THEN DateAt(now) ELSE Null)
           /\ PostData'.updated_at = PostData.updated_at ) ]_vars

\* C7 (amended): delete() and restore() probe for touch when they are called:
\* with softDelete applied first they skip touch and leave updated_at alone
\* only while timestamps has not been applied to the class; once it has, they
\* refresh updated_at as in the other order.  No error either way.
C7_ProbeAtCallTime ==
  [][ ( /\ proto["Post"].applied # <<>>
        /\ proto["Post"].applied[1] = "softDelete"
        /\ ev'.op \in {"delete", "restore"} )
      => ( /\ ev'.err = None
           /\ PostData'.deleted_at = (IF ev'.op = "delete" THEN DateAt(now) ELSE Null)
           /\ IF Len(proto["Post"].applied) = 1
              THEN PostData'.updated_at = PostData.updated_at
              ELSE PostData'.updated_at \in DatesFrom(now, now') ) ]_vars

C7_Witness_TouchedDespiteOrder ==
  /\ proto["Post"].applied = <<"softDelete", "timestamps">>
  /\ ev.op = "restore"
  /\ PostData.deleted_at = Null
  /\ PostData.created_at.k = "date"
  /\ PostData.created_at.n < now
  /\ PostData.updated_at = DateAt(now)

\* The value the ingested record gives key, Absent when it has no such entry.
Given(attributes, key) ==
  IF \E i \in 1..Len(attributes) : attributes[i][1] = key
  THEN LET i == CHOOSE j \in 1..Len(attributes) :
                  /\ attributes[j][1] = key
                  /\ \A m \in (j + 1)..Len(attributes) : attributes[m][1] # key
       IN attributes[i][2]
  ELSE Absent
\* The created_at of the instance before the ingestion (none at construction).
CreatedBefore == IF ev'.op = "new" THEN Absent ELSE PostData.created_at

\* C11 (as claimed): on a BaseModel class with timestamps, construction and
\* every setAttributes call leave created_at as it was when it had a value and
\* at the current instant otherwise, and set updated_at to the current instant.
C11_CreatedKeptOrStamped ==
  [][ (proto["Post"].wraps # <<>> /\ ev'.op \in {"new", "setAttributes"}) =>
        /\ PostData'.created_at \in
              (IF CreatedBefore.k = "date" THEN {CreatedBefore} ELSE DatesFrom(now, now'))
        /\ PostData'.updated_at \in DatesFrom(now, now') ]_vars

\* C11 (amended): the record's own entries are stored first; created_at then
\* keeps a non-null value, the record's own (cast to a date) when the record
\* has one and the earlier one otherwise, and is stamped with the current
\* instant when null or absent; updated_at is always the current instant.
C11_RecordThenStamp ==
  [][ (proto["Post"].wraps # <<>> /\ ev'.op \in {"new", "setAttributes"}) =>
        LET given == Given(ev'.attrs, "created_at")
            held == IF given # Absent THEN cast(given, <<"date">>) ELSE CreatedBefore
        IN /\ PostData'.created_at \in
                 (IF held.k \in {"date", "baddate"} THEN {held} ELSE DatesFrom(now, now'))
           /\ PostData'.updated_at \in DatesFrom(now, now') ]_vars

C11_Witness_CreatedKeptUpdatedRefreshed ==
  /\ proto["Post"].wraps # <<>>
  /\ ev.op = "setAttributes"
  /\ Given(ev.attrs, "created_at") = Absent
  /\ PostData.created_at.k = "date"
  /\ PostData.created_at.n < now
  /\ PostData.updated_at = DateAt(now)

\* The field names declared on Post: those given an accessor.
Declared == {k \in Props : proto["Post"].accessors[k] # None}

\* C12: toJSON() of an instance of a class built with props has exactly these
\* keys: every declared field, assigned or read or not, and every key of the
\* attribute store, except underscored keys and keys whose value is a method.
C12_ToJSONKeys ==
  (ev.op = "toJSON" /\ proto["Post"].toJSON) =>
    {k \in Props : ev.json[k] # Absent} =
      {k \in Declared \cup DataKeys(PostData) :
         ~startsWithUnderscore(k) /\ ~IsFunctionProp(proto["Post"], k)}

\* C13: in toJSON() of a built class every field with a recorded type, whoever
\* declared it, has the value serialize(field value, type), and every other
\* key of the attribute store has its stored value, unchanged.
C13_ToJSONValues ==
  (ev.op = "toJSON" /\ proto["Post"].toJSON) =>
    \A k \in Props :
      ev.json[k] # Absent =>
        IF proto["Post"].types[k] # None
        THEN \/ k \in proto["Post"].withGet \cup proto["Post"].withSet
             \/ ev.json[k] = serialize(PostData[k], <<proto["Post"].types[k]>>)
        ELSE ev.json[k] = PostData[k]

\* The instance an instance call was made on, its class and its data.
EvProto == proto[ClassOf(ev'.cls)]
EvData == inst[ev'.cls].data
\* The field has the accessors the builder installs by default.
DefaultField(k) == k \notin EvProto.withGet \cup EvProto.withSet

\* C14: reading a field declared with a custom get returns what that get
\* returns; assigning a field declared with a custom set calls that set with
\* the assigned value, uncast, and writes nothing else to the attribute store.
C14_CustomAccessors ==
  [][ /\ (ev'.op = "read" /\ ev'.err = None /\ ev'.key \in EvProto.withGet)
          => ev'.value = priceGet(EvData)
      /\ (ev'.op = "assign" /\ ev'.err = None /\ ev'.key \in EvProto.withSet)
          => inst'[ev'.cls].data = priceSet(EvData, ev'.value) ]_vars

NullAs(k) ==
  IF EvProto.types[k] \notin {None, "any"} THEN cast(Null, <<EvProto.types[k]>>) ELSE Null

C16_OwnStore ==
  [][ /\ (ev'.op = "assign" /\ DefaultField(ev'.key))
          => /\ ev'.err = None
             /\ inst'[ev'.cls].data[ev'.key] = cast(ev'.value, <<EvProto.types[ev'.key]>>)
             /\ \A j \in Instances \ {ev'.cls} : inst'[j] = inst[j]
      /\ (ev'.op = "read" /\ DefaultField(ev'.key))
          => /\ ev'.err = None
             /\ EvData[ev'.key] # Absent => ev'.value = EvData[ev'.key]
             /\ \A j \in Instances \ {ev'.cls} : inst'[j] = inst[j] ]_vars

\* ------------------------------------------------------ BaseCollection properties
\* The id of an element as the collection reads it.
IdAt(i) == getId(coll.items[i])

\* C17: after any sequence of construction, add, push, unshift and remove,
\* push and unshift with several items of equal ids included, no two
\* elements of the collection have the same non-null id.
C17_NoDuplicateIds ==
  \A i, j \in 1..Len(coll.items) :
    (i # j /\ IdAt(i) \notin {"null", TypeError}) => IdAt(i) # IdAt(j)

\* The number of elements of items whose id reads as null.
RECURSIVE NullIdCount(_)
NullIdCount(items) ==
  IF items = <<>> THEN 0
  ELSE (IF getId(Head(items)) = "null" THEN 1 ELSE 0) + NullIdCount(Tail(items))

\* The items of the latest call as the collection's coercion function gives them.
Coerced == [i \in 1..Len(cev'.items) |-> castItem(coll'.fn, cev'.items[i])]

C19_EveryElementCoerced ==
  coll.fn # None =>
    \A i \in 1..Len(coll.items) : \E raw \in Items : coll.items[i] = TestModel(raw)

\* The index of the first element whose id is id, 0 when there is none.
FirstWithId(items, id) ==
  IF \E i \in 1..Len(items) : getId(items[i]) = id
  THEN CHOOSE i \in 1..Len(items) :
         getId(items[i]) = id /\ \A j \in 1..(i - 1) : getId(items[j]) # id
  ELSE 0

\* C20: remove(x) takes out at most one element and keeps the others in
\* order: given an element of the collection it takes out that element, given
\* an id value the first element with that id, and when nothing matches, as
\* with null or undefined, the collection stays as it is.
C20_RemoveOne ==
  [][LET x == cev'.items[1]
         first == FirstWithId(coll.items, x.name)
     IN /\ cev'.op = "removeElement" => coll'.items = Without(coll.items, cev'.at)
        /\ (cev'.op = "remove" /\ x.k = "number") =>
             coll'.items = IF first = 0 THEN coll.items ELSE Without(coll.items, first)
        /\ (cev'.op = "remove" /\ x.k \in {"null", "undefined"}) =>
             coll'.items = coll.items
        /\ cev'.op = "remove" =>
             \/ coll'.items = coll.items
             \/ \E at \in 1..Len(coll.items) : coll'.items = Without(coll.items, at)]_vars

\* ------------------------------------------- CastingManager properties, continued
\* C23: serialize(v, S) is v.toJSON() for every object v with a toJSON
\* function that is neither a Date nor an Array, whatever S is and whatever is
\* registered for it, and no registered serializer is called; a Date or an
\* Array is never answered by its toJSON.
C23_ToJSONFirst ==
  call.op = "serialize" =>
    /\ call.value.k = "json" => call.out = toJSON(call.value)
    /\ ((IsDate(call.value) \/ IsArray(call.value))
          /\ CallSerializer = None /\ CallType # "array") => call.out = call.value

\* An object with toJSON was serialized under a name whose registered
\* serializer raises, and its toJSON result came back.
C23_Witness_ToJSONOverSerializer ==
  /\ call.op = "serialize"
  /\ call.value = WithToJSON(5)
  /\ CallSerializer = "throwingSerialize"
  /\ call.out = PlainObj(5)

\* No date can be read from a value that is not null or undefined: it is an
\* invalid Date, or new Date(value) gives one or raises.
Unparsable(v) ==
  /\ ~isNullable(v)
  /\ IF IsDate(v) THEN v = InvalidDate ELSE NewDate(v).k # "date"

\* A cast or serialize call under date or datetime as the constructor
\* registered them.
DateCall(op) ==
  /\ call.op = op
  /\ CallType \in {"date", "datetime"}
  /\ HasBuiltInPair(CallType)

\* C24 (as claimed): the date and datetime coercions pass an input that is
\* not a recognizable date through unchanged: cast of an unparsable non-null
\* value and serialize of an invalid date return the value given, and do
\* not raise.
C24_UnparsablePassedThrough ==
  /\ (DateCall("cast") /\ Unparsable(call.value)) => call.out = call.value
  /\ (DateCall("serialize") /\ call.value = InvalidDate) => call.out = call.value

\* C24 (amended): cast of an unparsable non-null value does not raise and
\* gives an invalid Date, which is the value itself only when that was an
\* invalid Date already; when building the Date raises, the value is
\* returned.  serialize of an invalid Date returns it and does not raise.
C24_UnparsableGivesInvalidDate ==
  /\ (DateCall("cast") /\ Unparsable(call.value)) =>
       call.out = IF ~IsDate(call.value) /\ NewDate(call.value) = Throw
                  THEN call.value ELSE InvalidDate
  /\ (DateCall("serialize") /\ call.value = InvalidDate) => call.out = call.value

\* A text that spells no date was cast to date and an invalid Date came back.
C24_Witness_TextCastToInvalidDate ==
  /\ DateCall("cast")
  /\ call.value = StrText
  /\ call.out = InvalidDate

\* C25: cast(null, T) and cast(undefined, T) are null for number, integer,
\* decimal, string, date and datetime, and false for boolean and bool;
\* cast(null, "array") is the one-element list [null].
C25_NullCasts ==
  (call.op = "cast" /\ call.value \in {Null, Undefined} /\ HasBuiltInPair(CallType)) =>
    /\ CallType \in {"number", "integer", "decimal", "string", "date", "datetime"}
         => call.out = Null
    /\ CallType \in {"boolean", "bool"} => call.out = Bool(FALSE)
    /\ (CallType = "array" /\ CallParams = <<>> /\ call.value = Null)
         => call.out = Arr(<<Null>>)

\* undefined was cast to number and null came back.
C25_Witness_UndefinedToNumber ==
  /\ call.op = "cast"
  /\ call.value = Undefined
  /\ call.spec = <<"number">>
  /\ call.out = Null

\* C26: cast(v, "array") is v when v is a list and [v] otherwise;
\* cast(v, "array:T") has, in the same order and number, cast(e, T) for every
\* element e, T being looked up in the registry as it is at the call, so that
\* a registered or overridden T is used and an unknown T leaves e as it is.
C26_ArrayCast ==
  (call.op = "cast" /\ CallType = "array") =>
    LET arr == IF IsArray(call.value) THEN call.value.e ELSE <<call.value>>
    IN IF CallParams = <<>>
       THEN call.out = (IF IsArray(call.value) THEN call.value ELSE Arr(<<call.value>>))
       ELSE /\ call.out.k = "arr"
            /\ Len(call.out.e) = Len(arr)
            /\ \A i \in 1..Len(arr) :
                 /\ call.out.e[i] = cast(arr[i], <<CallParams[1]>>)
                 /\ MapGet(casters, toLowerCase(CallParams[1])) = None
                      => call.out.e[i] = arr[i]

\* A list of two numerals was cast to array:number and gave the two numbers.
C26_Witness_NumeralsToNumbers ==
  /\ call.op = "cast"
  /\ call.spec = <<"array", "number">>
  /\ call.value = Arr(<<StrNum(Scale), StrNum(1234)>>)
  /\ call.out = Arr(<<Num(Scale), Num(1234)>>)

\* The rows one after another.
RECURSIVE Flatten(_)
Flatten(rows) == IF rows = <<>> THEN <<>> ELSE Head(rows) \o Flatten(Tail(rows))

\* C27: toRows(n) raises for n <= 0, and for n >= 1 gives ceil(length / n)
\* rows of at most n items each, which put one after another are the
\* collection; an empty collection gives no rows.
C27_ToRows ==
  cev.op = "toRows" =>
    IF cev.at <= 0 THEN cev.err # None
    ELSE /\ cev.err = None
         /\ Len(cev.rows) = Ceil(Len(coll.items), cev.at)
         /\ \A i \in 1..Len(cev.rows) : Len(cev.rows[i]) <= cev.at
         /\ Flatten(cev.rows) = coll.items
         /\ coll.items = <<>> => cev.rows = <<>>

\* ------------------------------------------------ BaseModel properties, continued
\* C30: reading an attribute never writes through a custom setter:
\* getAttribute(key), and reading a declared field, runs no set closure and
\* changes no stored value, except that the key read is initialized when it
\* was absent.
C30_ReadsDoNotWrite ==
  [][ (ev'.op \in {"read", "getAttribute"} /\ ev'.err = None) =>
        /\ \A q \in Props \ {ev'.key} : inst'[ev'.cls].data[q] = EvData[q]
        /\ EvData[ev'.key] # Absent => inst'[ev'.cls].data[ev'.key] = EvData[ev'.key]
        /\ EvData[ev'.key] = Absent => inst'[ev'.cls].data[ev'.key] = NullAs(ev'.key) ]_vars

\* ---------------------------------------------- ClassBuilder properties, continued
\* The fields an add call of TraitCalls declares.
FieldsOf(name) ==
  CASE name = "props" -> {"title"}
    [] name = "timestamps" -> {"created_at", "updated_at"}
    [] name = "softDelete" -> {"deleted_at"}
    [] OTHER -> {}

\* C29: installing fields or applying a trait on a class that already
\* declares a field of the same name, the same trait applied twice included,
\* completes without raising, leaves the field with its accessor and the type
\* of the latest declaration, and removes nothing installed earlier.
C29_RedeclareCompletes ==
  [][ ( /\ ev'.op = "add"
        /\ \E k \in FieldsOf(ev'.name) : proto[ev'.cls].accessors[k] # None )
      => /\ ev'.err = None
         /\ \A k \in Props :
              /\ proto[ev'.cls].accessors[k] # None => proto'[ev'.cls].accessors[k] # None
              /\ proto[ev'.cls].casts[k] # None => proto'[ev'.cls].casts[k] # None
         /\ proto[ev'.cls].touch # None => proto'[ev'.cls].touch # None ]_vars

\* C22: clone() gives a new instance of the same class whose every attribute
\* equals the original's at the call, date fields and the fields the
\* timestamps trait keeps included.
C22_CloneEqualsOriginal ==
  [][ ev'.op = "clone" =>
        /\ inst'[ev'.key].exists
        /\ inst'[ev'.cls] = inst[ev'.cls]
        /\ \A k \in Props : inst'[ev'.key].data[k] = inst[ev'.cls].data[k] ]_vars

\* C21: toJSON() gives each attribute by calling the instance's
\* _serialize_<name>() method when there is one, so that a method the class
\* defines for itself changes the output for that attribute, and gives the
\* stored value otherwise; on every model class, those built with props
\* included.
C21_ToJSONCallsSerializeMethod ==
  ev.op = "toJSON" =>
    \A k \in Props :
      ev.json[k] # Absent =>
        ev.json[k] = serializeAttribute(proto[ClassOf(ev.cls)], inst[ev.cls].data, k)

\* What the cast function registered latest for the field's type makes of a
\* value: the value itself when none is registered or when it raises.
CastByLatest(type, value) ==
  LET castFn == latest[toLowerCase(type)][1]
      r == IF castFn # None THEN CallCast(castFn, value, <<>>) ELSE value
  IN IF r = Throw THEN value ELSE r

\* C28: the cast of a field assignment is looked up in the registry at the
\* assignment, not at the declaration: an assignment stores what the cast
\* function registered latest for the field's type makes of the value, and
\* registering a type changes no value already stored.
C28_ResolvedAtAssignment ==
  [][ /\ (ev'.op = "assign" /\ ev'.err = None) =>
           inst'[ev'.cls].data =
             [EvData EXCEPT ![ev'.key] = CastByLatest(EvProto.types[ev'.key], ev'.value)]
      /\ ev'.op = "register" => inst' = inst ]_vars

\* After the field price was declared with the type money, money was
\* registered, and an assignment stored what the new cast function gives.
C28_Witness_RegisteredAfterDeclared ==
  /\ ev.op = "assign" /\ ev.key = "price" /\ ev.value = StrNum(1234)
  /\ proto["Post"].types["price"] = "money"
  /\ latest["money"][1] = "customCast"
  /\ PostData.price = customCast(StrNum(1234))
  /\ PostData.created_at = DateAt(MsPerDay)
====
